---- MODULE Spec2Model ----
(***************************************************************************)
(* Model of src/src/components/MelodySculptorGame.js: the sequencer of the *)
(* Melody Sculptor game.  A wand (the playhead) sweeps the musical plane,  *)
(* sound nodes placed by clicks are triggered once per sweep, a trigger    *)
(* flashes the node and starts a one-shot buffer source when the sound of  *)
(* the node's type has been decoded.                                       *)
(*                                                                         *)
(* Numbers.  Positions are in quarter world units (the wand moves 0.5 per  *)
(* frame, so it stays on the even values; clicks may land between them):   *)
(* planeSize 200 is 800, the step 0.5 is 2 and the tolerance 1.0 is 4.     *)
(* Visual values are in thousandths: an emissive of 0 is the node's        *)
(* original emissive colour and 1000 is white (0xffffff), a scale of 1000  *)
(* is (1, 1, 1) and 1200 is (1.2, 1.2, 1.2).                               *)
(*                                                                         *)
(* Left out: the scene, camera, controls, particles and the rotation of    *)
(* the nodes (rendering only, read by no handler's condition).             *)
(***************************************************************************)
EXTENDS Integers, Sequences, FiniteSets

VARIABLES
    wandX,             \* refs.wandGroup.position.x
    isPlaying,         \* the React state isPlaying = class "stop" of #play-stop-btn
    activeInstrument,  \* the React state activeInstrument = the button with class "active"
    soundNodes,        \* refs.soundNodes, in placement order
    soundBuffers,      \* the keys of refs.soundBuffers (decoded sounds)
    sources,           \* per node: buffer sources started for it by playSound
    sweeps,            \* wraps of the wand so far
    runTicks,          \* frames in which the wand has moved
    idleTicks,         \* frames in which the game was stopped
    nodeLog,           \* per node: its triggers and sources by sweep
    clicked,           \* what the handler that ran last did, when it was a click: "miss", "hit"
    boot,              \* where initGame is: "three", "orbit", "tone", "started", "failed"
    frameId,           \* a frame is requested (refs.frameId is set and not cancelled)
    listening,         \* onCanvasClick is a listener of the canvas
    unmounted,         \* the effect's cleanup has run
    threw              \* a frame has ended in an exception

\* The session: initGame's position, the frame loop and the listeners
life == <<boot, frameId, listening, unmounted, threw>>

vars == <<wandX, isPlaying, activeInstrument, soundNodes, soundBuffers,
          sources, sweeps, runTicks, idleTicks, nodeLog, clicked,
          boot, frameId, listening, unmounted, threw>>

----------------------------------------------------------------------------
(* Program constants *)

planeSize == 800
WandStep == 2
Tolerance == 4
FlashEmissive == 1000
BaseScale == 1000
KickScale == 1200
LerpDivisor == 10

InstrumentTypes == {"synth", "pluck", "kick"}

boundsMin == -(planeSize \div 2)
boundsMax == planeSize \div 2

----------------------------------------------------------------------------
(* Bounds of the model *)

MaxNodes == 1
MaxRunTicks == 4
MaxIdleTicks == 1

\* The sweep sessions
MaxSweepNodes == 2
MaxSweepTicks == 404
MaxSweepIdle == 1

\* The audio sessions
MaxAudioNodes == 1
MaxAudioSweeps == 2

\* The three-instrument session
MaxScenarioTicks == 403

\* The sessions of a flash that decays
MaxDecayTicks == 56
MaxDecayIdle == 3

\* The sessions without an end
MaxLiveCount == 1

\* The sessions from the mount
MaxLifeNodes == 1
MaxLifeTicks == 3
MaxLifeIdle == 2

----------------------------------------------------------------------------
(* Helpers *)

Abs(n) == IF n < 0 THEN -n ELSE n

Indices == 1..Len(soundNodes)

\* A lerp with the factor 0.5.
lerpHalf(v, target) == v + ((target - v) \div 2)

\* THREE's lerp, v += (target - v) * 0.1, in thousandths; the division rounds
\* away from v, so a value that differs from its target keeps moving to it.
lerp(v, target) == v + ((target - v) \div LerpDivisor)

----------------------------------------------------------------------------
(* Initial state: startGame has run; nothing is placed, decoded or playing *)

Init ==
    /\ wandX = boundsMin
    /\ isPlaying = FALSE
    /\ activeInstrument = "synth"
    /\ soundNodes = <<>>
    /\ soundBuffers = {}
    /\ sources = <<>>
    /\ sweeps = 0
    /\ runTicks = 0
    /\ idleTicks = 0
    /\ nodeLog = <<>>
    /\ clicked = ""
    /\ boot = "started"
    /\ frameId = TRUE
    /\ listening = TRUE
    /\ unmounted = FALSE
    /\ threw = FALSE

----------------------------------------------------------------------------
(* placeInstrument *)

\* The instrument as the effect's closure sees it: the one of the first render.
currentTypeOfFirstRender == "synth"

\* The instrument read from the DOM: synth unless the pluck or the kick
\* button carries the class "active".
currentType ==
    IF activeInstrument = "kick" THEN "kick"
    ELSE IF activeInstrument = "pluck" THEN "pluck"
    ELSE "synth"

\* A switch with a default case: any type gets a mesh.
newMeshForAnyType(type) == [defined |-> TRUE, emissive |-> 0, scale |-> BaseScale]

\* The switch over currentType: a mesh for the three types, undefined otherwise.
newMesh(type) ==
    IF type \in InstrumentTypes
    THEN [defined |-> TRUE, emissive |-> 0, scale |-> BaseScale]
    ELSE [defined |-> FALSE]

\* A node that is pushed as already triggered.
newNodeTriggered(mesh, type, x) ==
    [type |-> type, x |-> x, hasBeenTriggered |-> TRUE,
     emissive |-> mesh.emissive, scale |-> mesh.scale]

\* The node that is pushed: the mesh with its position and userData set.
newNode(mesh, type, x) ==
    [type |-> type, x |-> x, hasBeenTriggered |-> FALSE,
     emissive |-> mesh.emissive, scale |-> mesh.scale]

\* A placeInstrument that puts the new node in front (unshift).
placeInstrumentInFront(nodes, type, x) ==
    LET mesh == newMesh(type)
    IN  IF mesh.defined
        THEN [threw |-> FALSE, nodes |-> <<newNode(mesh, type, x)>> \o nodes]
        ELSE [threw |-> TRUE, nodes |-> nodes]

\* placeInstrument(position) with currentType = type: an undefined mesh makes
\* newNode.position throw before the push, and the registry is as it was.
placeInstrument(nodes, type, x) ==
    LET mesh == newMesh(type)
    IN  IF mesh.defined
        THEN [threw |-> FALSE, nodes |-> Append(nodes, newNode(mesh, type, x))]
        ELSE [threw |-> TRUE, nodes |-> nodes]

\* The log of a node that was just placed: it was not there when the sweep
\* started, has seen no sweep in full, has no flash that decays and has
\* waited for the wand in no frame.
newLog ==
    [fired |-> 0, played |-> 0, atStart |-> FALSE, full |-> FALSE,
     fullSweeps |-> 0, fullPlays |-> 0, age |-> 0, waited |-> 0]

\* A click handler that places a node at the origin when the ray misses.
onCanvasClickAlways(intersects, maxNodes) ==
    /\ listening /\ ~unmounted
    /\ Len(soundNodes) < maxNodes
    /\ clicked' = IF Len(intersects) > 0 THEN "hit" ELSE "miss"
    /\ soundNodes' = Append(soundNodes,
                            newNode(newMesh(currentType), currentType,
                                    IF Len(intersects) > 0 THEN intersects[1] ELSE 0))
    /\ sources' = Append(sources, 0)
    /\ nodeLog' = Append(nodeLog, newLog)
    /\ UNCHANGED <<wandX, isPlaying, activeInstrument, soundBuffers, sweeps,
                   runTicks, idleTicks, life>>

\* The click handler; intersects is what the raycaster finds of the plane
\* under the pointer, the points' x: a ray that misses the plane places nothing.
\* It runs while it is a listener of the canvas and the canvas is in the
\* document, which it is as long as the component is mounted.
onCanvasClick(intersects, maxNodes) ==
    /\ listening /\ ~unmounted
    /\ Len(intersects) > 0 => Len(soundNodes) < maxNodes
    /\ clicked' = IF Len(intersects) > 0 THEN "hit" ELSE "miss"
    /\ IF ~(Len(intersects) > 0)
       THEN UNCHANGED <<soundNodes, sources, nodeLog>>
       ELSE LET placed == placeInstrument(soundNodes, currentType, intersects[1])
            IN  /\ soundNodes' = placed.nodes
                /\ sources' = IF placed.threw THEN sources ELSE Append(sources, 0)
                /\ nodeLog' = IF placed.threw THEN nodeLog
                              ELSE Append(nodeLog, newLog)
    /\ UNCHANGED <<wandX, isPlaying, activeInstrument, soundBuffers, sweeps,
                   runTicks, idleTicks, life>>

----------------------------------------------------------------------------
(* The instrument and play/stop buttons, the decoded sounds *)

\* An instrument button that also starts the game.
toggleInstrumentAndPlay(inst) ==
    /\ ~unmounted
    /\ activeInstrument' = inst
    /\ isPlaying' = TRUE
    /\ clicked' = ""
    /\ UNCHANGED <<wandX, soundNodes, soundBuffers, sources, sweeps,
                   runTicks, idleTicks, nodeLog, life>>

\* The buttons are there from the mount to the unmount.
toggleInstrument(inst) ==
    /\ ~unmounted
    /\ activeInstrument' = inst
    /\ clicked' = ""
    /\ UNCHANGED <<wandX, isPlaying, soundNodes, soundBuffers, sources, sweeps,
                   runTicks, idleTicks, nodeLog, life>>

togglePlay ==
    /\ ~unmounted
    /\ isPlaying' = ~isPlaying
    /\ clicked' = ""
    /\ UNCHANGED <<wandX, activeInstrument, soundNodes, soundBuffers, sources,
                   sweeps, runTicks, idleTicks, nodeLog, life>>

\* The decodeAudioData callback of loadSound(name, url); a sound whose request
\* or decoding fails never gets here.
loadSound(name) ==
    /\ boot = "started"
    /\ name \notin soundBuffers
    /\ soundBuffers' = soundBuffers \cup {name}
    /\ clicked' = ""
    /\ UNCHANGED <<wandX, isPlaying, activeInstrument, soundNodes, sources,
                   sweeps, runTicks, idleTicks, nodeLog, life>>

----------------------------------------------------------------------------
(* playSound and animate *)

\* A playSound that starts a source whether the buffer is there or not.
playSoundUnchecked(type, buffers) == 1

\* playSound(refs.soundBuffers[type]): the sources it starts, none without a
\* buffer (refs.audioContext is set by startGame).
playSound(type, buffers) == IF type \notin buffers THEN 0 ELSE 1

\* The first forEach of animate: the flash and the kick's scale go back.
decay(node) ==
    [node EXCEPT
        !.emissive = IF node.emissive # 0 THEN lerp(node.emissive, 0)
                     ELSE node.emissive,
        !.scale = IF node.type = "kick" /\ node.scale > BaseScale
                  THEN lerp(node.scale, BaseScale) ELSE node.scale]

\* refs.wandGroup.position.x += 0.5
advance(x) == x + WandStep

\* A wrap that already happens on the plane's edge.
wrapsOnEdge(x) == x >= planeSize \div 2

\* The wand is past the plane's edge
wraps(x) == x > planeSize \div 2

\* A wrap that leaves the flags as they are.
resetNothing(nodes) == nodes

\* The wrap's forEach: every node may be triggered again.
resetTriggered(nodes) ==
    [i \in DOMAIN nodes |-> [nodes[i] EXCEPT !.hasBeenTriggered = FALSE]]

\* A detector without a tolerance: the wand must be on the node's x.
inReachExact(node, x) == ~node.hasBeenTriggered /\ node.x = x

\* A detector that forgets the flag: a node fires in every frame it is in reach.
inReachIgnoringFlag(node, x) == Abs(node.x - x) < Tolerance

\* The condition of the trigger
inReach(node, x) == ~node.hasBeenTriggered /\ Abs(node.x - x) < Tolerance

\* A trigger whose flash and scale are decayed in the frame that sets them.
triggerThenDecay(node) ==
    decay([node EXCEPT !.hasBeenTriggered = TRUE,
                       !.emissive = FlashEmissive,
                       !.scale = IF node.type = "kick" THEN KickScale ELSE node.scale])

\* A trigger that scales the node of any type.
triggerScalesAll(node) ==
    [node EXCEPT !.hasBeenTriggered = TRUE,
                 !.emissive = FlashEmissive,
                 !.scale = KickScale]

\* A trigger that leaves the kick's scale alone.
triggerWithoutScale(node) ==
    [node EXCEPT !.hasBeenTriggered = TRUE, !.emissive = FlashEmissive]

\* The trigger's effect on the node
trigger(node) ==
    [node EXCEPT !.hasBeenTriggered = TRUE,
                 !.emissive = FlashEmissive,
                 !.scale = IF node.type = "kick" THEN KickScale ELSE node.scale]

\* A frame that moves the wand although the game is stopped.
isGamePlayingAlways == TRUE

\* The play state read from the DOM: #play-stop-btn carries the class "stop";
\* without the button (after the unmount) the optional chain gives undefined.
isGamePlaying == ~unmounted /\ isPlaying

\* What the logic of one frame does to the wand and the nodes.  The nodes
\* decay whether the game plays or not; when it plays the wand advances,
\* wraps, and triggers the nodes in its reach.  The log counts, up to maxWait,
\* the frames of the playing game that a node has seen since its last trigger
\* (since it was placed, before the first).
frameLogic(maxWait) ==
    LET decayed == [i \in DOMAIN soundNodes |-> decay(soundNodes[i])]
        \* the frames for which the node's flash has decayed since its trigger
        aged(i) == IF decayed[i].emissive = 0 THEN 0 ELSE nodeLog[i].age + 1
        waiting(i) == IF nodeLog[i].waited < maxWait
                      THEN nodeLog[i].waited + 1 ELSE nodeLog[i].waited
    IN  IF ~isGamePlaying
        THEN /\ soundNodes' = decayed
             /\ nodeLog' = [i \in DOMAIN nodeLog |->
                              [nodeLog[i] EXCEPT !.age = aged(i)]]
             /\ clicked' = ""
             /\ UNCHANGED <<wandX, isPlaying, activeInstrument, soundBuffers,
                            sources>>
        ELSE LET moved == advance(wandX)
                 wrapped == wraps(moved)
                 pos == IF wrapped THEN -(planeSize \div 2) ELSE moved
                 nodes == IF wrapped THEN resetTriggered(decayed) ELSE decayed
                 hit(i) == inReach(nodes[i], pos)
                 started(i) == IF hit(i)
                               THEN playSound(nodes[i].type, soundBuffers) ELSE 0
                 \* a sweep starts with the first frame that plays and with a wrap
                 starts == wrapped \/ runTicks = 0
                 closed(i) ==
                    IF wrapped
                    THEN [nodeLog[i] EXCEPT
                            !.fired = 0, !.played = 0,
                            !.fullSweeps = @ + (IF nodeLog[i].full THEN 1 ELSE 0),
                            !.fullPlays = @ + (IF nodeLog[i].full
                                               THEN nodeLog[i].played ELSE 0)]
                    ELSE nodeLog[i]
                 opened(i) ==
                    IF starts
                    THEN [closed(i) EXCEPT
                            !.atStart = TRUE,
                            !.full = soundNodes[i].type \in soundBuffers]
                    ELSE closed(i)
             IN  /\ wandX' = pos
                 /\ soundNodes' = [i \in DOMAIN nodes |->
                                     IF hit(i) THEN trigger(nodes[i]) ELSE nodes[i]]
                 /\ sources' = [i \in DOMAIN sources |-> sources[i] + started(i)]
                 /\ nodeLog' = [i \in DOMAIN nodeLog |->
                                  [opened(i) EXCEPT
                                     !.fired = @ + (IF hit(i) THEN 1 ELSE 0),
                                     !.played = @ + started(i),
                                     !.age = IF hit(i) THEN 0 ELSE aged(i),
                                     !.waited = IF hit(i) THEN 0 ELSE waiting(i)]]
                 /\ clicked' = ""
                 /\ UNCHANGED <<isPlaying, activeInstrument, soundBuffers>>

\* The logic of one frame, after the request of the next, in a session that
\* counts its frames: the frames of the playing game up to maxTicks, with the
\* wraps among them, and the frames of the stopped game up to maxIdle.
frame(maxTicks, maxIdle) ==
    /\ frameLogic(0)
    /\ IF ~isGamePlaying
       THEN /\ idleTicks < maxIdle
            /\ idleTicks' = idleTicks + 1
            /\ UNCHANGED <<sweeps, runTicks>>
       ELSE /\ runTicks < maxTicks
            /\ runTicks' = runTicks + 1
            /\ sweeps' = sweeps + (IF wraps(advance(wandX)) THEN 1 ELSE 0)
            /\ UNCHANGED idleTicks

\* The logic of one frame in a session without an end: the frames and the
\* wraps are counted up to maxCount and no further, the frames that a node
\* waits for the wand up to maxWait.
frameOn(maxCount, maxWait) ==
    /\ frameLogic(maxWait)
    /\ IF ~isGamePlaying
       THEN UNCHANGED <<sweeps, runTicks, idleTicks>>
       ELSE /\ runTicks' = IF runTicks < maxCount THEN runTicks + 1 ELSE runTicks
            /\ sweeps' = IF wraps(advance(wandX)) /\ sweeps < maxCount
                         THEN sweeps + 1 ELSE sweeps
            /\ UNCHANGED idleTicks

\* A frame that asks for the next one after its logic, when that has not thrown.
requestedAfterLogic(thrown) == ~thrown

\* refs.frameId = requestAnimationFrame(animate) is the first statement of
\* animate: the next frame is requested whether the logic throws or not.
requested(thrown) == TRUE

\* One frame of the loop: the callback of the request that is pending.
animate(maxTicks, maxIdle) ==
    /\ frameId
    /\ frame(maxTicks, maxIdle)
    /\ frameId' = requested(FALSE)
    /\ UNCHANGED <<boot, listening, unmounted, threw>>

\* One frame of the loop in a session without an end.
animateOn(maxCount, maxWait) ==
    /\ frameId
    /\ frameOn(maxCount, maxWait)
    /\ frameId' = requested(FALSE)
    /\ UNCHANGED <<boot, listening, unmounted, threw>>

\* Where a frame's logic calls into the libraries: the controls' update
\* before the frame's updates and the renderer after them.
ThrowPoints == {"controls", "render"}

\* A frame whose logic ends in an exception at the given call.
animateThrows(at, maxTicks, maxIdle) ==
    /\ frameId
    /\ IF at = "render"
       THEN frame(maxTicks, maxIdle)
       ELSE /\ clicked' = ""
            /\ UNCHANGED <<wandX, isPlaying, activeInstrument, soundNodes,
                           soundBuffers, sources, sweeps, runTicks, idleTicks,
                           nodeLog>>
    /\ frameId' = requested(TRUE)
    /\ threw' = TRUE
    /\ UNCHANGED <<boot, listening, unmounted>>

----------------------------------------------------------------------------
(* initGame, startGame and the effect's cleanup *)

\* The component is mounted and initGame waits for the Three.js script; the
\* wand will be made at bounds.min.
InitBoot ==
    /\ wandX = boundsMin
    /\ isPlaying = FALSE
    /\ activeInstrument = "synth"
    /\ soundNodes = <<>>
    /\ soundBuffers = {}
    /\ sources = <<>>
    /\ sweeps = 0
    /\ runTicks = 0
    /\ idleTicks = 0
    /\ nodeLog = <<>>
    /\ clicked = ""
    /\ boot = "three"
    /\ frameId = FALSE
    /\ listening = FALSE
    /\ unmounted = FALSE
    /\ threw = FALSE

\* A catch block that runs initGame again.
caughtAndRetried == "three"

\* initGame's catch block logs the error, and initGame is over.
caught == "failed"

\* Everything but initGame's position
booting == <<wandX, isPlaying, activeInstrument, soundNodes, soundBuffers,
             sources, sweeps, runTicks, idleTicks, nodeLog,
             frameId, listening, unmounted, threw>>

\* The script that initGame awaits has loaded.  three.min.js may leave
\* window.THREE undefined (defines = FALSE): reading window.THREE.OrbitControls
\* throws then.  With the Tone.js script loaded initGame calls startGame.
scriptLoaded(defines) ==
    /\ boot \in {"three", "orbit"}
    /\ boot' = IF boot = "orbit" THEN "tone"
               ELSE IF defines THEN "orbit" ELSE caught
    /\ clicked' = ""
    /\ UNCHANGED booting

\* The script that initGame awaits has failed to load: the rejection goes to
\* the catch block, but for OrbitControls, whose rejection is swallowed.
scriptFailed ==
    /\ boot \in {"three", "orbit", "tone"}
    /\ boot' = IF boot = "orbit" THEN "tone" ELSE caught
    /\ clicked' = ""
    /\ UNCHANGED booting

\* A startGame that starts the loop before it makes the audio context.
backendNotNeeded(audio, webgl) == TRUE

\* startGame gets as far as animate() when the audio context and the WebGL
\* renderer can be made; their constructors throw otherwise.
backend(audio, webgl) == audio /\ webgl

\* The Tone.js script has loaded and initGame calls startGame: with the
\* backend there it makes the scene and the wand, runs the first frame, which
\* requests the next, and adds the listeners; a constructor or the first
\* frame that throws ends startGame in initGame's catch block.
startGame(audio, webgl, thrown, maxTicks, maxIdle) ==
    /\ boot = "tone"
    /\ IF ~backend(audio, webgl)
       THEN /\ boot' = caught
            /\ clicked' = ""
            /\ UNCHANGED booting
       ELSE /\ frame(maxTicks, maxIdle)
            /\ frameId' = requested(thrown)
            /\ boot' = IF thrown THEN caught ELSE "started"
            /\ listening' = ~thrown
            /\ threw' = thrown
            /\ UNCHANGED unmounted

\* The effect's cleanup: it cancels the frame that refs.frameId names and
\* removes the click listener from the renderer's canvas, when there is one.
cleanup ==
    /\ ~unmounted
    /\ unmounted' = TRUE
    /\ frameId' = FALSE
    /\ listening' = FALSE
    /\ clicked' = ""
    /\ UNCHANGED <<wandX, isPlaying, activeInstrument, soundNodes, soundBuffers,
                   sources, sweeps, runTicks, idleTicks, nodeLog, boot, threw>>

----------------------------------------------------------------------------
(* The session: frames, clicks near the start of the plane, the buttons and *)
(* the sounds, until the wand has moved MaxRunTicks times                   *)

\* The plane spans planeSize in x: a ray that meets it meets it there.
ClickXs == {boundsMin, boundsMin + 9, boundsMax}

Raycasts(xs) == {<<>>} \cup {<<x>> : x \in xs}

Tick == animate(MaxRunTicks, MaxIdleTicks)

Click == \E intersects \in Raycasts(ClickXs) : onCanvasClick(intersects, MaxNodes)

Select == \E inst \in InstrumentTypes : toggleInstrument(inst)

PlayStop == togglePlay

Decoded == \E name \in InstrumentTypes : loadSound(name)

Next == Tick \/ Click \/ Select \/ PlayStop \/ Decoded

Spec == Init /\ [][Next]_vars

----------------------------------------------------------------------------
(* A session of whole sweeps: the wand crosses the plane and wraps, nodes   *)
(* are placed at its edges and inside it at any moment, the game is stopped *)
(* and resumed; the instrument stays the synth and no sound is decoded      *)

SweepXs == {boundsMin, 1, boundsMax}

SweepTick == animate(MaxSweepTicks, MaxSweepIdle)

SweepClick == \E intersects \in Raycasts(SweepXs) : onCanvasClick(intersects, MaxSweepNodes)

NextSweep == SweepTick \/ SweepClick \/ PlayStop

SpecSweep == Init /\ [][NextSweep]_vars

----------------------------------------------------------------------------
(* A session of several sweeps in which the sounds are decoded at any moment: *)
(* Play was pressed first and the game is not stopped again, nodes are placed  *)
(* on the plane's edge and inside it                                           *)

\* Frames from bounds.min to the frame that wraps
SweepTicks == planeSize \div WandStep + 1

AudioXs == {boundsMin, 1}

\* The state after startGame and a press of Play
InitPlaying ==
    /\ wandX = boundsMin
    /\ isPlaying = TRUE
    /\ activeInstrument = "synth"
    /\ soundNodes = <<>>
    /\ soundBuffers = {}
    /\ sources = <<>>
    /\ sweeps = 0
    /\ runTicks = 0
    /\ idleTicks = 0
    /\ nodeLog = <<>>
    /\ clicked = ""
    /\ boot = "started"
    /\ frameId = TRUE
    /\ listening = TRUE
    /\ unmounted = FALSE
    /\ threw = FALSE

AudioTick == animate(MaxAudioSweeps * SweepTicks + 1, 0)

AudioClick == \E intersects \in Raycasts(AudioXs) : onCanvasClick(intersects, MaxAudioNodes)

NextAudio == AudioTick \/ AudioClick \/ Decoded

SpecAudio == InitPlaying /\ [][NextAudio]_vars

----------------------------------------------------------------------------
(* The session of three instruments: a synth is placed at x = -50, a pluck at *)
(* x = 0 and a kick at x = 50, in any order, then Play is pressed and the     *)
(* game runs on; the sounds are decoded at any moment                         *)

ScenarioX(type) ==
    IF type = "synth" THEN -(planeSize \div 4)
    ELSE IF type = "pluck" THEN 0
    ELSE planeSize \div 4

Placed(type) == \E i \in Indices : soundNodes[i].type = type

ScenarioSelect ==
    /\ ~isPlaying /\ runTicks = 0
    /\ \E inst \in InstrumentTypes : toggleInstrument(inst)

ScenarioClick ==
    /\ ~isPlaying /\ runTicks = 0 /\ ~Placed(currentType)
    /\ onCanvasClick(<<ScenarioX(currentType)>>, Cardinality(InstrumentTypes))

ScenarioPlay ==
    /\ ~isPlaying /\ \A type \in InstrumentTypes : Placed(type)
    /\ togglePlay

ScenarioTick == isPlaying /\ animate(MaxScenarioTicks, 0)

NextScenario == ScenarioSelect \/ ScenarioClick \/ ScenarioPlay \/ ScenarioTick \/ Decoded

SpecScenario == Init /\ [][NextScenario]_vars

----------------------------------------------------------------------------
(* A session of decaying flashes: nodes of any type are placed next to the    *)
(* start of the plane before the first frame, one to a place, so that the     *)
(* wand triggers one while the other's flash decays; the game is played and   *)
(* stopped at any moment until every flash has gone                           *)

DecayXs == {boundsMin, boundsMin + 3 * WandStep}

DecaySelect ==
    /\ runTicks = 0 /\ idleTicks = 0
    /\ \E inst \in InstrumentTypes : toggleInstrument(inst)

DecayClick ==
    /\ runTicks = 0 /\ idleTicks = 0
    /\ \E x \in DecayXs :
          /\ \A i \in Indices : soundNodes[i].x # x
          /\ onCanvasClick(<<x>>, Cardinality(DecayXs))

DecayTick == (isPlaying \/ runTicks > 0) /\ animate(MaxDecayTicks, MaxDecayIdle)

NextDecay == DecaySelect \/ DecayClick \/ DecayTick \/ PlayStop

SpecDecay == Init /\ [][NextDecay]_vars

----------------------------------------------------------------------------
(* A session without an end: Play was pressed, the game is not stopped and   *)
(* the browser keeps calling the frame that animate requests; one node is    *)
(* placed on an edge of the plane or inside it, on the wand's grid or off    *)
(* it, while the wand is about to reach it, on it, or has just left it (the  *)
(* shortest and the longest waits), or is at an eighth of the plane          *)

LiveXs == {boundsMin, boundsMin + 1, 0, 1, boundsMax - 1, boundsMax}

\* The wand is near x or at an eighth of the plane
LiveMoment(x) ==
    \/ Abs(x - wandX) <= 2 * Tolerance
    \/ wandX % (planeSize \div 8) = 0

LiveTick == animateOn(MaxLiveCount, SweepTicks)

LiveClick ==
    /\ soundNodes = <<>>
    /\ \E x \in LiveXs :
          LiveMoment(x) /\ onCanvasClick(<<x>>, Len(soundNodes) + 1)

NextLive == LiveTick \/ LiveClick

\* Every frame requests the next (line 265), and the browser runs the frame
\* that is requested for as long as the page is shown.
SpecLive == InitPlaying /\ [][NextLive]_vars /\ WF_vars(LiveTick)

----------------------------------------------------------------------------
(* The session from the mount: the scripts load or fail, the backend is there *)
(* or not, the buttons are pressed and the component is unmounted at any      *)
(* moment, a frame may throw                                                  *)

LifeXs == {boundsMin, boundsMin + WandStep}

LifeScript == scriptFailed \/ \E defines \in BOOLEAN : scriptLoaded(defines)

LifeStart ==
    \E audio, webgl, thrown \in BOOLEAN :
        startGame(audio, webgl, thrown, MaxLifeTicks, MaxLifeIdle)

LifeTick == animate(MaxLifeTicks, MaxLifeIdle)

LifeThrow == \E at \in ThrowPoints : animateThrows(at, MaxLifeTicks, MaxLifeIdle)

LifeClick == \E intersects \in Raycasts(LifeXs) : onCanvasClick(intersects, MaxLifeNodes)

Teardown == cleanup

NextLife ==
    LifeScript \/ LifeStart \/ LifeTick \/ LifeThrow \/ LifeClick \/ Select
        \/ PlayStop \/ Teardown

SpecLife == InitBoot /\ [][NextLife]_vars

----------------------------------------------------------------------------
(* Claims *)

OnPlane(node) == boundsMin <= node.x /\ node.x <= boundsMax

\* C1: in every sweep of the wand from bounds.min to bounds.max, each node
\* that was in the registry when the sweep started and lies on the plane is
\* triggered exactly once: no node fires twice between two wraps, and when
\* the wand wraps every such node has fired once, whatever the number of
\* nodes, their order of placement and the stops in between.
C1_ExactlyOncePerSweep ==
    /\ [](\A i \in Indices : nodeLog[i].fired <= 1)
    /\ [][sweeps' # sweeps =>
            \A i \in Indices :
                (nodeLog[i].atStart /\ OnPlane(soundNodes[i])) => nodeLog[i].fired = 1]_vars

\* Two nodes placed against the wand's direction before the sweep, both fired
\* once, the sweep stopped and resumed on the way, the wand about to wrap.
C1_Witness ==
    /\ Len(soundNodes) = 2
    /\ soundNodes[1].x = boundsMax /\ soundNodes[2].x = boundsMin
    /\ \A i \in Indices : nodeLog[i].atStart /\ nodeLog[i].fired = 1
    /\ idleTicks > 0 /\ isPlaying
    /\ wandX = boundsMax

\* C2 as stated: in the first state after a wrap no node is triggered.
C2_AllClearAfterWrap ==
    [][sweeps' # sweeps =>
         \A i \in DOMAIN soundNodes' : ~soundNodes'[i].hasBeenTriggered]_vars

\* C2, amended: the frame that wraps resets every flag and then runs the
\* detection at bounds.min, so after it the triggered nodes are exactly the
\* nodes within the tolerance of bounds.min; every other node is not triggered.
C2_ClearAfterWrapButAtMin ==
    [][sweeps' # sweeps =>
         \A i \in DOMAIN soundNodes' :
            soundNodes'[i].hasBeenTriggered
                <=> Abs(soundNodes'[i].x - boundsMin) < Tolerance]_vars

\* The frame of the first wrap: a node in the middle of the plane, fired in the
\* sweep that ended, is clear; a node near bounds.min has just fired again.
C2_Witness ==
    /\ sweeps = 1 /\ runTicks = 401 /\ wandX = boundsMin
    /\ \E i, j \in Indices :
          /\ soundNodes[i].x = 1 /\ nodeLog[i].atStart
          /\ ~soundNodes[i].hasBeenTriggered
          /\ soundNodes[j].x = boundsMin
          /\ soundNodes[j].hasBeenTriggered
          /\ soundNodes[j].emissive = FlashEmissive

\* C7: a frame that plays moves the wand by exactly the step; it wraps exactly
\* when the moved position is greater than bounds.max, to exactly bounds.min,
\* and the wand is on the plane after every frame.
C7_AdvanceAndWrap ==
    /\ [](boundsMin <= wandX /\ wandX <= boundsMax)
    /\ [][runTicks' # runTicks =>
            IF wandX + WandStep > boundsMax
            THEN wandX' = boundsMin /\ sweeps' = sweeps + 1
            ELSE wandX' = wandX + WandStep /\ sweeps' = sweeps]_vars

\* The wand has been on bounds.max and has wrapped from there.
C7_Witness == sweeps = 1 /\ runTicks = 401 /\ wandX = boundsMin /\ isPlaying

Flags(nodes) == [i \in DOMAIN nodes |-> nodes[i].hasBeenTriggered]

Fired(log) == [i \in DOMAIN log |-> log[i].fired]

\* C3: a frame of the stopped game leaves the wand and every triggered flag as
\* they are, triggers no node and starts no source; the play/stop button
\* changes neither the wand nor any node; the wand moves only in a frame of
\* the playing game, so after Play it goes on from where it was stopped.
C3_StoppedIsFrozen ==
    [][/\ idleTicks' # idleTicks =>
            /\ wandX' = wandX /\ sweeps' = sweeps
            /\ Flags(soundNodes') = Flags(soundNodes)
            /\ Fired(nodeLog') = Fired(nodeLog)
            /\ sources' = sources
       /\ isPlaying' # isPlaying =>
            wandX' = wandX /\ soundNodes' = soundNodes /\ sources' = sources
       /\ (\/ wandX' # wandX
           \/ \E i \in Indices :
                 \/ soundNodes'[i].hasBeenTriggered # soundNodes[i].hasBeenTriggered
                 \/ sources'[i] # sources[i]) =>
            /\ isPlaying /\ isPlaying' /\ runTicks' = runTicks + 1
            /\ wandX' \in {wandX + WandStep, boundsMin}]_vars

\* The game was stopped in mid-sweep and frames have passed since; a node that
\* is not triggered lies in the wand's reach and its sound is decoded.
C3_Witness ==
    /\ ~isPlaying /\ runTicks > 0 /\ idleTicks > 0 /\ wandX > boundsMin
    /\ \E i \in Indices :
          /\ ~soundNodes[i].hasBeenTriggered
          /\ Abs(soundNodes[i].x - wandX) < Tolerance
          /\ soundNodes[i].type \in soundBuffers

Last(seq) == seq[Len(seq)]

\* C6: a node is appended not triggered, with its original emissive colour
\* (highlight 0) and scale 1.0, wherever the wand is and whether the game plays.
C6_FreshNode ==
    [][Len(soundNodes') > Len(soundNodes) =>
         /\ ~Last(soundNodes').hasBeenTriggered
         /\ Last(soundNodes').emissive = 0
         /\ Last(soundNodes').scale = BaseScale
         /\ Last(sources') = 0 /\ Last(nodeLog').fired = 0]_vars

\* A kick was just placed within the tolerance of the wand of a playing game.
C6_Witness ==
    /\ clicked = "hit" /\ isPlaying /\ runTicks > 0
    /\ Last(soundNodes).type = "kick"
    /\ Abs(Last(soundNodes).x - wandX) < Tolerance
    /\ ~Last(soundNodes).hasBeenTriggered

UnknownTypes == {"bass", "undefined", ""}

NodeFields == {"type", "x", "hasBeenTriggered", "emissive", "scale"}

\* C9: placeInstrument with a type outside {synth, pluck, kick} ends in an
\* error and leaves the registry as it was, and every node of the registry
\* has one of the three types and all of its fields.
C9_KnownTypesOnly ==
    /\ \A t \in UnknownTypes : \A x \in ClickXs :
          placeInstrument(soundNodes, t, x) = [threw |-> TRUE, nodes |-> soundNodes]
    /\ \A i \in Indices :
          /\ DOMAIN soundNodes[i] = NodeFields
          /\ soundNodes[i].type \in InstrumentTypes
          /\ soundNodes[i].x \in Int
          /\ soundNodes[i].hasBeenTriggered \in BOOLEAN

\* A node of a type other than the default is in the registry.
C9_Witness ==
    /\ clicked = "hit"
    /\ Last(soundNodes).type = "pluck" /\ activeInstrument = "pluck"

ProgramState == <<wandX, isPlaying, activeInstrument, soundNodes, soundBuffers, sources>>

\* C10: a click whose ray misses the plane changes nothing: no node, the wand
\* and every node as before; a click whose ray meets the plane appends exactly
\* one node, on the plane, and leaves the others as they were.
C10_MissPlacesNothing ==
    [][/\ clicked' = "miss" => UNCHANGED <<ProgramState, nodeLog>>
       /\ clicked' = "hit" =>
            /\ Len(soundNodes') = Len(soundNodes) + 1
            /\ SubSeq(soundNodes', 1, Len(soundNodes)) = soundNodes
            /\ OnPlane(Last(soundNodes'))
       /\ Len(soundNodes') # Len(soundNodes) => clicked' = "hit"]_vars

\* A click has missed the plane while a node was placed and the game played.
C10_Witness ==
    /\ clicked = "miss" /\ Len(soundNodes) > 0 /\ isPlaying /\ runTicks > 0

\* Node i is triggered in the step: its flag is set and was clear, or was
\* cleared by the wrap of this step.
TriggeredIn(i) ==
    /\ soundNodes'[i].hasBeenTriggered
    /\ ~soundNodes[i].hasBeenTriggered \/ sweeps' # sweeps

\* C4: over the N completed sweeps that a node was in from their start with
\* the sound of its type decoded, N sources were started for it; every trigger
\* of a node whose sound is decoded starts exactly one source, and no source is
\* started without a trigger.
C4_OneSourcePerSweep ==
    /\ [](\A i \in Indices :
            /\ nodeLog[i].fullPlays = nodeLog[i].fullSweeps
            /\ nodeLog[i].full => nodeLog[i].played = nodeLog[i].fired)
    /\ [][\A i \in Indices :
            sources'[i] = sources[i]
                + (IF TriggeredIn(i) /\ soundNodes[i].type \in soundBuffers
                   THEN 1 ELSE 0)]_vars

\* A node has been through two sweeps with its sound decoded, and two sources
\* were started for it in them.
C4_Witness ==
    \E i \in Indices :
        /\ nodeLog[i].fullSweeps = 2 /\ nodeLog[i].fullPlays = 2
        /\ sources[i] >= 2 /\ soundNodes[i].x = 1

\* C5: a trigger of a node whose sound is not decoded starts no source, and
\* sets the node's flag and flash like any trigger; a step that does not
\* trigger the node starts no source for it, so the request that was dropped is
\* not made up for when the sound is decoded later in the sweep.
C5_DroppedNotReplayed ==
    [][\A i \in Indices :
         /\ (TriggeredIn(i) /\ soundNodes[i].type \notin soundBuffers) =>
               /\ sources'[i] = sources[i]
               /\ soundNodes'[i].hasBeenTriggered
               /\ soundNodes'[i].emissive = FlashEmissive
         /\ ~TriggeredIn(i) => sources'[i] = sources[i]
         /\ (soundNodes[i].hasBeenTriggered /\ nodeLog[i].played = 0
               /\ sweeps' = sweeps) => nodeLog'[i].played = 0]_vars

\* A node fired in this sweep without a source; its sound has been decoded
\* since, frames have passed, and there is still no source for it.
C5_Witness ==
    \E i \in Indices :
        /\ soundNodes[i].hasBeenTriggered /\ nodeLog[i].fired = 1
        /\ nodeLog[i].played = 0 /\ sources[i] = 0
        /\ soundNodes[i].type \in soundBuffers
        /\ soundNodes[i].emissive = 0 /\ wandX > soundNodes[i].x + Tolerance

NodeOf(type) == soundNodes[CHOOSE i \in Indices : soundNodes[i].type = type]

LogOf(type) == nodeLog[CHOOSE i \in Indices : soundNodes[i].type = type]

\* C8: with a synth at -50, a pluck at 0 and a kick at 50 and the game playing
\* from -100 without a stop, the synth is triggered in frame 99, the pluck in
\* frame 199 and the kick in frame 299, where its scale becomes 1.2, in that
\* order and each once; frame 401 wraps the wand to -100 and clears the three
\* flags.
C8_ThreeInstruments ==
    isPlaying =>
        /\ sweeps = 0 =>
              /\ NodeOf("synth").hasBeenTriggered <=> runTicks >= 99
              /\ NodeOf("pluck").hasBeenTriggered <=> runTicks >= 199
              /\ NodeOf("kick").hasBeenTriggered <=> runTicks >= 299
              /\ \A type \in InstrumentTypes :
                    LogOf(type).fired = (IF NodeOf(type).hasBeenTriggered THEN 1 ELSE 0)
        /\ NodeOf("kick").scale = KickScale <=> runTicks = 299
        /\ runTicks < 299 => NodeOf("kick").scale = BaseScale
        /\ \A type \in {"synth", "pluck"} : NodeOf(type).scale = BaseScale
        /\ sweeps = (IF runTicks >= 401 THEN 1 ELSE 0)
        /\ runTicks >= 401 =>
              /\ wandX = boundsMin + (runTicks - 401) * WandStep
              /\ \A i \in Indices : ~soundNodes[i].hasBeenTriggered

\* The frame that wraps, with the kick placed first and the synth last.
C8_Witness ==
    /\ isPlaying /\ runTicks = 401 /\ sweeps = 1 /\ wandX = boundsMin
    /\ Len(soundNodes) = 3
    /\ soundNodes[1].type = "kick" /\ soundNodes[3].type = "synth"
    /\ \A i \in Indices : ~soundNodes[i].hasBeenTriggered /\ nodeLog[i].atStart

\* initGame's positions in the order it goes through them
BootRank(b) ==
    CASE b = "three" -> 1
      [] b = "orbit" -> 2
      [] b = "tone" -> 3
      [] OTHER -> 4

C12_LoopStopsAfterThrow ==
    [][threw => (runTicks' = runTicks /\ idleTicks' = idleTicks)]_vars

\* C20 as stated: after the cleanup no frame runs and no node is placed.
C20_NothingAfterTeardown ==
    [][unmounted =>
         /\ runTicks' = runTicks /\ idleTicks' = idleTicks
         /\ Len(soundNodes') = Len(soundNodes)]_vars

\* C13: in the frame that wraps the flags are reset before the detection
\* runs, at bounds.min: every node within the tolerance of bounds.min is
\* triggered in that frame, also when it was triggered in the sweep that
\* ended (its flag was set), and starts its source there when its sound is
\* decoded; no other node is triggered in that frame.
C13_ResetBeforeDetection ==
    [][sweeps' # sweeps =>
         /\ wandX' = boundsMin
         /\ \A i \in Indices :
               IF Abs(soundNodes[i].x - boundsMin) < Tolerance
               THEN /\ soundNodes'[i].hasBeenTriggered
                    /\ soundNodes'[i].emissive = FlashEmissive
                    /\ nodeLog'[i].fired = 1
                    /\ sources'[i] = sources[i]
                          + (IF soundNodes[i].type \in soundBuffers THEN 1 ELSE 0)
               ELSE /\ ~soundNodes'[i].hasBeenTriggered
                    /\ nodeLog'[i].fired = 0
                    /\ sources'[i] = sources[i]]_vars

\* The frame of the first wrap has run: the node on bounds.min has its second
\* source, one from the sweep that ended and one from this frame.
C13_Witness ==
    /\ sweeps = 1 /\ runTicks = SweepTicks /\ wandX = boundsMin
    /\ \E i \in Indices :
          /\ soundNodes[i].x = boundsMin /\ soundNodes[i].hasBeenTriggered
          /\ soundNodes[i].emissive = FlashEmissive
          /\ nodeLog[i].fired = 1 /\ sources[i] = 2

C15_ImpulseByType ==
    /\ [](\A i \in Indices :
            soundNodes[i].type \in {"synth", "pluck"} => soundNodes[i].scale = BaseScale)
    /\ [][\A i \in Indices :
            IF TriggeredIn(i)
            THEN /\ soundNodes'[i].emissive = FlashEmissive
                 /\ soundNodes'[i].scale =
                       (IF soundNodes[i].type = "kick" THEN KickScale ELSE BaseScale)
            ELSE (runTicks' # runTicks \/ idleTicks' # idleTicks) =>
                 /\ soundNodes'[i].emissive = decay(soundNodes[i]).emissive
                 /\ soundNodes'[i].scale = decay(soundNodes[i]).scale]_vars

\* The wand has just triggered a synth beside a kick that it triggered two
\* frames before: the synth has the full flash and the scale 1.0, the kick's
\* flash and scale are on their way back.
C15_Witness ==
    /\ Len(soundNodes) = 2 /\ runTicks = 2
    /\ soundNodes[1].type = "kick" /\ soundNodes[2].type = "synth"
    /\ soundNodes[2].hasBeenTriggered /\ soundNodes[2].emissive = FlashEmissive
    /\ soundNodes[2].scale = BaseScale
    /\ soundNodes[1].hasBeenTriggered /\ soundNodes[1].emissive < FlashEmissive
    /\ BaseScale < soundNodes[1].scale /\ soundNodes[1].scale < KickScale

\* One thousandth, in the unit of Geo
GeoUnit == FlashEmissive * 100

\* The full flash times 0.9^k, to a hundred-thousandth of a thousandth
RECURSIVE Geo(_)
Geo(k) ==
    IF k = 0 THEN FlashEmissive * GeoUnit
    ELSE (Geo(k - 1) * (LerpDivisor - 1)) \div LerpDivisor

\* C16: in every frame, of the playing or of the stopped game, the flash of a
\* node that the frame does not trigger goes a tenth of its way to 0 and the
\* scale a tenth of its way to 1.0 (to the thousandth, rounded on): neither
\* grows and neither goes past its rest value, so the flash is within [0, 1]
\* and the scale within [1.0, 1.2] in every state; k frames after its trigger
\* a flash is 0.9^k of the full flash, to the hundredth that k roundings to
\* the thousandth add up to.
C16_GeometricDecay ==
    /\ [](\A i \in Indices :
            /\ 0 <= soundNodes[i].emissive /\ soundNodes[i].emissive <= FlashEmissive
            /\ BaseScale <= soundNodes[i].scale /\ soundNodes[i].scale <= KickScale
            /\ soundNodes[i].emissive > 0 =>
                  Abs(soundNodes[i].emissive * GeoUnit - Geo(nodeLog[i].age))
                      <= LerpDivisor * GeoUnit)
    /\ [][(runTicks' # runTicks \/ idleTicks' # idleTicks) =>
            \A i \in Indices :
               ~TriggeredIn(i) =>
                  LET e == soundNodes[i].emissive
                      s == soundNodes[i].scale
                      de == e - soundNodes'[i].emissive
                      ds == s - soundNodes'[i].scale
                  IN  /\ 0 <= de /\ de <= e
                      /\ e <= LerpDivisor * de /\ LerpDivisor * de < e + LerpDivisor
                      /\ 0 <= ds /\ ds <= s - BaseScale
                      /\ s - BaseScale <= LerpDivisor * ds
                      /\ LerpDivisor * ds < s - BaseScale + LerpDivisor
                      /\ nodeLog'[i].age =
                            (IF soundNodes'[i].emissive = 0 THEN 0
                             ELSE nodeLog[i].age + 1)]_vars

\* The game was stopped while the flash and the scale of a kick decayed: ten
\* frames after its trigger, the last of them in the stopped game, the flash
\* is at 0.9^10 of the full flash, to the hundredth.
C16_Witness ==
    /\ ~isPlaying /\ idleTicks = MaxDecayIdle
    /\ \E i \in Indices :
          /\ soundNodes[i].type = "kick" /\ nodeLog[i].age = LerpDivisor
          /\ Abs(soundNodes[i].emissive - Geo(LerpDivisor) \div GeoUnit) < LerpDivisor
          /\ BaseScale < soundNodes[i].scale /\ soundNodes[i].scale < KickScale

\* C17: the session starts stopped with the wand on bounds.min; as long as
\* no frame of the playing game has run the wand is on bounds.min and no node
\* is triggered, flashed or played, whatever frames have run and wherever the
\* nodes are; a step from a state of the stopped game neither moves the wand
\* nor sets a flag; and the play state changes only in a step that changes
\* nothing else, the press of the play/stop button.
C17_StoppedUntilPlay ==
    /\ ~isPlaying /\ wandX = boundsMin
    /\ [](runTicks = 0 =>
            /\ wandX = boundsMin /\ sweeps = 0
            /\ \A i \in Indices :
                  /\ ~soundNodes[i].hasBeenTriggered
                  /\ soundNodes[i].emissive = 0
                  /\ sources[i] = 0 /\ nodeLog[i].fired = 0)
    /\ [][/\ ~isPlaying =>
               /\ wandX' = wandX /\ runTicks' = runTicks
               /\ \A i \in Indices :
                     soundNodes'[i].hasBeenTriggered = soundNodes[i].hasBeenTriggered
          /\ isPlaying' # isPlaying =>
               UNCHANGED <<wandX, activeInstrument, soundNodes, soundBuffers,
                           sources, sweeps, runTicks, idleTicks, nodeLog, life>>]_vars

\* Play has not been pressed; the game has started and frames have run with
\* a node of another instrument placed within the wand's reach.
C17_Witness ==
    /\ boot = "started" /\ ~isPlaying /\ runTicks = 0 /\ idleTicks = MaxLifeIdle
    /\ wandX = boundsMin /\ activeInstrument = "kick"
    /\ \E i \in Indices :
          /\ Abs(soundNodes[i].x - wandX) < Tolerance
          /\ soundNodes[i].type = "kick"
          /\ ~soundNodes[i].hasBeenTriggered

\* C18: the node that a click appends has the type of the instrument that is
\* selected in the state the click is made in, the synth as long as no
\* instrument button was pressed, and the click leaves the selection as it
\* is; the selection changes no node.
C18_TypeIsSelection ==
    /\ activeInstrument = "synth"
    /\ [][/\ Len(soundNodes') > Len(soundNodes) =>
               /\ Last(soundNodes').type = activeInstrument
               /\ activeInstrument' = activeInstrument
          /\ activeInstrument' # activeInstrument => soundNodes' = soundNodes]_vars

\* A kick was placed in the playing game after the kick button was pressed.
C18_Witness ==
    /\ clicked = "hit" /\ isPlaying /\ runTicks > 0
    /\ activeInstrument = "kick" /\ Last(soundNodes).type = "kick"

\* C19: the registry only grows, and by one node at its end in a step that is
\* a click on the plane: no frame, wrap, press of a button or click removes a
\* node or moves it to another index, and no node changes its type or its x.
C19_AppendOnly ==
    [][/\ Len(soundNodes') >= Len(soundNodes)
       /\ \A i \in Indices :
             /\ soundNodes'[i].type = soundNodes[i].type
             /\ soundNodes'[i].x = soundNodes[i].x
       /\ Len(soundNodes') # Len(soundNodes) =>
             /\ Len(soundNodes') = Len(soundNodes) + 1
             /\ clicked' = "hit"]_vars

\* A second node was placed after the wand wrapped and the game was stopped;
\* the first one, placed on the far edge, is still first.
C19_Witness ==
    /\ clicked = "hit" /\ sweeps = 1 /\ idleTicks > 0
    /\ Len(soundNodes) = 2
    /\ soundNodes[1].x = boundsMax /\ soundNodes[2].x = 1

\* C21: in a game that stays playing and whose frames keep coming the wand
\* wraps again and again; a node, wherever it is placed on the plane and
\* wherever the wand is then, is triggered again and again, and it never
\* sees a whole sweep of 401 frames go by without a trigger, neither from its
\* placement to its first trigger nor from one trigger to the next.
C21_RevisitedEverySweep ==
    /\ []<><<wandX = boundsMax /\ wandX' = boundsMin>>_vars
    /\ [](soundNodes # <<>> =>
            []<>(/\ soundNodes # <<>>
                 /\ soundNodes[1].hasBeenTriggered /\ nodeLog[1].waited = 0))
    /\ [](\A i \in Indices : nodeLog[i].waited < SweepTicks)

\* A node placed on bounds.min just after the wand had left its reach has
\* waited for all of the sweep but its last frame: the wand is on
\* bounds.max, and the frame that wraps will trigger the node.
C21_Witness ==
    /\ isPlaying /\ wandX = boundsMax /\ Len(soundNodes) = 1
    /\ soundNodes[1].x = boundsMin /\ ~soundNodes[1].hasBeenTriggered
    /\ nodeLog[1].waited = SweepTicks - 2

====
